---- MODULE Spec2Model ----
(***************************************************************************)
(* Model of stac_fastapi/sqlalchemy/serializers.py: the serializers that   *)
(* map STAC Items and Collections to database rows and back.               *)
(*                                                                         *)
(* Python values are tuples whose first element is the Python type:        *)
(*   <<"None">>              None                                          *)
(*   <<"str", "Z", t>>       the RFC 3339 text of instant t, "Z" suffix    *)
(*   <<"str", "+00:00", t>>  the ISO 8601 text of instant t, "+00:00"      *)
(*   <<"str", "json", v>>    the JSON text json.dumps(v)                   *)
(*   <<"str", "text", s>>    any other text s                              *)
(*   <<"datetime", t>>       a timezone-aware datetime.datetime at t       *)
(*   <<"int", n>>, <<"float", n>>, <<"bool", b>>                           *)
(*   <<"list", seq>>, <<"dict", fcn>>                                      *)
(* A property name is the sequence of its ":"-separated segments, so that  *)
(* "eo:cloud_cover" is <<"eo", "cloud_cover">>.                            *)
(***************************************************************************)
EXTENDS Integers, Sequences, FiniteSets, TLC

VARIABLES
    indexed_fields, \* Settings.get().indexed_fields, fixed at process start
    clock,          \* the wall clock read by now_to_rfc3339_str()
    pc,             \* which call has completed
    arg,            \* the argument of the last call, as the caller passed it
    argAfter,       \* the caller's object after the call returned or raised
    out,            \* outcome of the last call: [err, val]
    orig,           \* the API record a round trip started from
    readings        \* the clock readings the last call took, in order

vars == <<indexed_fields, clock, pc, arg, argAfter, out, orig, readings>>

(* ---------------------------- bounds ---------------------------------- *)
MaxClock == 2      \* instants are 0..MaxClock
MaxFields == 2     \* longest configured list of indexed fields
MaxIntervals == 2  \* longest extent.temporal.interval sequence

(* ------------------------- Python values ------------------------------ *)
None == <<"None">>
NowStr(t) == <<"str", "Z", t>>
Text(s) == <<"str", "text", s>>

IsStr(v) == v[1] = "str"
IsDatetime(v) == v[1] = "datetime"

\* d[k] = v on a dict held as a function
Put(d, k, v) == [x \in (DOMAIN d) \cup {k} |-> IF x = k THEN v ELSE d[x]]
\* d.get(k)
Get(d, k) == IF k \in DOMAIN d THEN d[k] ELSE None
EmptyDict == [x \in {} |-> None]

\* the truth value Python gives v in "if v:" and "v or default"
Truthy(v) ==
    CASE v[1] = "None" -> FALSE
      [] v[1] = "str" -> ~(v[2] = "text" /\ v[3] = "")
      [] v[1] \in {"int", "float"} -> v[2] # 0
      [] v[1] = "bool" -> v[2]
      [] v[1] = "list" -> Len(v[2]) > 0
      [] v[1] = "dict" -> DOMAIN v[2] # {}
      [] OTHER -> TRUE

DATETIME == <<"datetime">>
CREATED == <<"created">>
UPDATED == <<"updated">>

\* stac_fastapi.types.rfc3339.rfc3339_str_to_datetime
rfc3339_str_to_datetime(s) == <<"datetime", s[3]>>
\* pystac.utils.datetime_to_str: isoformat with "+00:00" rewritten to "Z"
datetime_to_str(dt) == <<"str", "Z", dt[2]>>
\* datetime.datetime.isoformat of an aware UTC datetime
isoformat(dt) == <<"str", "+00:00", dt[2]>>
json_dumps(v) == <<"str", "json", v>>
json_loads(s) == s[3]
\* float(x)
float(x) == <<"float", x[2]>>

\* field.split(":")[-1]
ColumnName(field) == field[Len(field)]

(* ------------------------- ItemSerializer ----------------------------- *)
NoValue == <<"None">>
Raised(kind, props) == [err |-> kind, props |-> props, cols |-> EmptyDict]

\* stac_data.to_dict() of a typed Item: a fresh plain mapping of its fields
to_dict(obj) == obj[2]

\* the loop with properties.get(field) for the lookup of line 111: a missing
\* indexed field is staged as None
RECURSIVE IndexLoop_GetField(_, _, _, _, _)
IndexLoop_GetField(fields, i, props, cols, nows) ==
    IF i > Len(fields)
    THEN [err |-> "none", props |-> props, cols |-> cols]
    ELSE LET field == fields[i]
             raw == Get(props, field)
             field_value == IF field = DATETIME /\ IsStr(raw)
                            THEN rfc3339_str_to_datetime(raw)
                            ELSE raw
             now == NowStr(nows[i])
             p1 == IF CREATED \notin DOMAIN props
                   THEN Put(props, CREATED, now)
                   ELSE props
             p2 == Put(p1, UPDATED, now)
         IN IndexLoop_GetField(fields, i + 1, p2,
                               Put(cols, ColumnName(field), field_value), nows)

\* lines 108-121: stage every indexed field as a column; the created and
\* updated stamps are written inside the loop body, once per field
RECURSIVE IndexLoop(_, _, _, _, _)
IndexLoop(fields, i, props, cols, nows) ==
    IF i > Len(fields)
    THEN [err |-> "none", props |-> props, cols |-> cols]
    ELSE LET field == fields[i] IN
         IF field \notin DOMAIN props
         THEN Raised("KeyError", props)
         ELSE LET raw == props[field]
                  field_value == IF field = DATETIME /\ IsStr(raw)
                                 THEN rfc3339_str_to_datetime(raw)
                                 ELSE raw
                  now == NowStr(nows[i])
                  p1 == IF CREATED \notin DOMAIN props
                        THEN Put(props, CREATED, now)
                        ELSE props
                  p2 == Put(p1, UPDATED, now)
              IN IndexLoop(fields, i + 1, p2,
                           Put(cols, ColumnName(field), field_value), nows)

\* lines 123-125
SerializeGeometry(geometry) ==
    IF geometry # None THEN json_dumps(geometry) ELSE geometry

\* lines 127-135: properties['datetime'] and properties['created'] are read
\* unconditionally and a datetime.datetime is replaced by its isoformat()
StringifyTimestamps(props) ==
    IF DATETIME \notin DOMAIN props
    THEN Raised("KeyError", props)
    ELSE LET dt == props[DATETIME]
             p1 == IF IsDatetime(dt) THEN Put(props, DATETIME, isoformat(dt))
                   ELSE props
         IN IF CREATED \notin DOMAIN p1
            THEN Raised("KeyError", p1)
            ELSE LET cr == p1[CREATED]
                     p2 == IF IsDatetime(cr)
                           THEN Put(p1, CREATED, isoformat(cr))
                           ELSE p1
                 IN [err |-> "none", props |-> p2, cols |-> EmptyDict]

\* database.Item(...) as called on lines 138-148
ItemRow(d, geometry, props, cols) ==
    [id |-> d.id,
     collection_id |-> d.collection,
     stac_version |-> d.stac_version,
     stac_extensions |-> Get(d, "stac_extensions"),
     geometry |-> geometry,
     bbox |-> Get(d, "bbox"),
     properties |-> props,
     assets |-> d.assets,
     links |-> None,
     cols |-> cols]

\* lines 105-106: a dict is used as it is, and so is written to in place;
\* anything else is replaced by its to_dict()
Normalize(stac_data) ==
    IF stac_data[1] # "dict" THEN to_dict(stac_data) ELSE stac_data[2]

\* what the caller's object holds once the call is over
CallerView(stac_data, props) ==
    IF stac_data[1] = "dict"
    THEN <<"dict", [stac_data[2] EXCEPT !.properties = props]>>
    ELSE stac_data

\* ItemSerializer.stac_to_db; nows[i] is the clock reading of the i-th
\* call of now_to_rfc3339_str()
Item_stac_to_db(stac_data, fields, nows) ==
    LET d == Normalize(stac_data)
        staged == IndexLoop(fields, 1, d.properties, EmptyDict, nows)
    IN IF staged.err # "none"
       THEN [err |-> staged.err, val |-> NoValue,
             after |-> CallerView(stac_data, staged.props)]
       ELSE LET geometry == SerializeGeometry(d.geometry)
                str == StringifyTimestamps(staged.props)
            IN IF str.err # "none"
               THEN [err |-> str.err, val |-> NoValue,
                     after |-> CallerView(stac_data, str.props)]
               ELSE [err |-> "none",
                     val |-> ItemRow(d, geometry, str.props, staged.cols),
                     after |-> CallerView(stac_data, str.props)]

\* lines 52-59: overlay the indexed columns on a copy of row.properties
RECURSIVE Overlay(_, _, _, _)
Overlay(db_model, fields, i, props) ==
    IF i > Len(fields) THEN props
    ELSE LET field == fields[i]
             column == db_model.cols[ColumnName(field)]
             field_value == IF field = DATETIME THEN datetime_to_str(column)
                            ELSE column
         IN Overlay(db_model, fields, i + 1, Put(props, field, field_value))

\* lines 75-79; a geoalchemy2 WKBElement is held as <<"WKBElement", shape>>
DecodeGeometry(geometry) ==
    LET g1 == IF geometry[1] = "WKBElement" THEN geometry[2] ELSE geometry
    IN IF IsStr(g1) THEN json_loads(g1) ELSE g1

\* lines 81-83
NormalizeBbox(bbox) ==
    IF bbox # None
    THEN <<"list", [k \in 1..Len(bbox[2]) |-> float(bbox[2][k])]>>
    ELSE bbox

\* stac_fastapi.types.links.resolve_links: a relative href is made absolute
\* against base_url
ResolveLinks(links, base_url) ==
    [k \in 1..Len(links[2]) |->
        LET link == links[2][k][2] IN
        <<"dict", [link EXCEPT !.href =
                      IF @[2] = "relative"
                      THEN <<"str", "absolute", <<base_url, @[3]>>>>
                      ELSE @]>>]

\* lines 62-68, with ItemLinks.create_links of stac_fastapi.types.links
ItemLinks(db_model, base_url) ==
    LET Inferred(rel, path) ==
            <<"dict", [rel |-> Text(rel), href |-> <<"str", "absolute", path>>]>>
        inferred ==
            <<Inferred("self", <<base_url, db_model.collection_id, db_model.id>>),
              Inferred("parent", <<base_url, db_model.collection_id>>),
              Inferred("collection", <<base_url, db_model.collection_id>>),
              Inferred("root", <<base_url>>)>>
    IN IF Truthy(db_model.links)
       THEN inferred \o ResolveLinks(db_model.links, base_url)
       ELSE inferred

\* line 52: db_model.properties.copy(); the overlay is written to the copy,
\* which the row does not share
PropertiesCopy(db_model) == [props |-> db_model.properties, shared |-> FALSE]

\* ItemSerializer.db_to_stac: the Item, and the row as the call leaves it
Item_db_to_stac(db_model, fields, base_url) ==
    LET properties == PropertiesCopy(db_model)
        overlaid == Overlay(db_model, fields, 1, properties.props)
    IN [val |-> [type |-> "Feature",
                 stac_version |-> db_model.stac_version,
                 stac_extensions |-> IF Truthy(db_model.stac_extensions)
                                     THEN db_model.stac_extensions
                                     ELSE <<"list", <<>>>>,
                 id |-> db_model.id,
                 collection |-> db_model.collection_id,
                 geometry |-> DecodeGeometry(db_model.geometry),
                 bbox |-> NormalizeBbox(db_model.bbox),
                 properties |-> overlaid,
                 links |-> ItemLinks(db_model, base_url),
                 assets |-> db_model.assets],
        after |-> IF properties.shared
                  THEN [db_model EXCEPT !.properties = overlaid]
                  ELSE db_model]

(* ------------------- the Item calls as a state machine ---------------- *)
Instants == 0..MaxClock
EO_CLOUD_COVER == <<"eo", "cloud_cover">>
CLOUD_COVER == <<"cloud_cover">>
FieldNames == {DATETIME, EO_CLOUD_COVER, CLOUD_COVER}

\* the configured lists of indexed fields: no field twice
FieldLists ==
    UNION {{f \in [1..n -> FieldNames] :
               \A a, b \in 1..n : a # b => f[a] # f[b]} : n \in 0..MaxFields}

\* a properties mapping takes each of these keys from the listed values, or
\* leaves it out
Absent == <<"absent">>
DatetimeInputs == {<<"str", "Z", 0>>, <<"str", "Z", 1>>,
                   <<"str", "+00:00", 1>>, <<"datetime", 1>>}
CreatedInputs == {<<"str", "Z", t>> : t \in Instants} \cup {<<"datetime", 0>>}
UpdatedInputs == {<<"str", "Z", 0>>}
WithoutAbsent(d) == [k \in {kk \in DOMAIN d : d[kk] # Absent} |-> d[k]]
PropertyInputs ==
    {WithoutAbsent((DATETIME :> dt) @@ (CREATED :> cr) @@ (UPDATED :> up)
                   @@ (EO_CLOUD_COVER :> eo) @@ (CLOUD_COVER :> cc)) :
        dt \in DatetimeInputs \cup {Absent},
        cr \in CreatedInputs \cup {Absent},
        up \in UpdatedInputs \cup {Absent},
        eo \in {<<"int", 5>>, Absent},
        cc \in {<<"int", 7>>, Absent}}

Point == <<"dict", [type |-> "Point", coordinates |-> <<1, 2>>]>>
GeometryInputs == {None, Point}
BboxInputs == {Absent, <<"list", << <<"int", 1>>, <<"float", 2>> >> >>}

ItemFields(geometry, bbox, props) ==
    LET required == [id |-> Text("a"), collection |-> Text("c1"),
                     stac_version |-> Text("1.0.0"), geometry |-> geometry,
                     properties |-> props, assets |-> EmptyDict]
    IN IF bbox = Absent THEN required ELSE Put(required, "bbox", bbox)

\* the record as a plain mapping (bulk endpoint) or as a typed Item
ItemInputs ==
    {<<shape, ItemFields(g, b, p)>> :
        shape \in {"dict", "Item"}, g \in GeometryInputs, b \in BboxInputs,
        p \in PropertyInputs}

\* the readings of a clock that never runs backwards, one per call of now
NowSeqs(from, n) ==
    {f \in [1..n -> from..MaxClock] : \A a \in 1..n : \A b \in a..n : f[a] <= f[b]}

NoCall == [err |-> "none", val |-> NoValue]
BaseUrl == "http://api"

ItemInit ==
    /\ indexed_fields \in FieldLists
    /\ clock = 0
    /\ pc = "ready"
    /\ arg \in ItemInputs
    /\ argAfter = arg
    /\ out = NoCall
    /\ orig = arg
    /\ readings = <<>>

ItemStacToDb ==
    /\ pc = "ready"
    /\ \E nows \in NowSeqs(clock, Len(indexed_fields)) :
          LET r == Item_stac_to_db(arg, indexed_fields, nows) IN
          /\ out' = [err |-> r.err, val |-> r.val]
          /\ argAfter' = r.after
          /\ pc' = IF r.err = "none" THEN "stored" ELSE "raised"
          /\ clock' = IF nows = <<>> THEN clock ELSE nows[Len(nows)]
          /\ readings' = nows
    /\ UNCHANGED <<indexed_fields, arg, orig>>

ItemDbToStac ==
    /\ pc = "stored"
    /\ arg' = out.val
    /\ LET r == Item_db_to_stac(out.val, indexed_fields, BaseUrl) IN
          /\ argAfter' = r.after
          /\ out' = [err |-> "none", val |-> r.val]
    /\ pc' = "restored"
    /\ UNCHANGED <<indexed_fields, clock, orig, readings>>

ItemNext == ItemStacToDb \/ ItemDbToStac
SpecItem == ItemInit /\ [][ItemNext]_vars

(* --------------------------- Item claims ------------------------------ *)
InputProps == orig[2].properties
Instant(v) == v[Len(v)]
Configured == {indexed_fields[k] : k \in 1..Len(indexed_fields)}
\* the Item carries "datetime" and every configured indexed field
ValidItem == {DATETIME} \cup Configured \subseteq DOMAIN InputProps

SameNumbers(a, b) ==
    \/ a = None /\ b = None
    \/ /\ a # None /\ b # None /\ Len(a[2]) = Len(b[2])
       /\ \A k \in 1..Len(a[2]) : a[2][k][2] = b[2][k][2]
SameValue(field, a, b) ==
    IF field = DATETIME THEN Instant(a) = Instant(b) ELSE a = b

\* C1: every valid Item, under every configured list of indexed fields, is
\* converted to a row, and the row converted back has the id, collection,
\* geometry, bbox and indexed-field values of the original (datetimes
\* compared as instants).
C1_ItemRoundTrip ==
    /\ pc = "raised" => ~ValidItem
    /\ pc = "restored" =>
          LET item == orig[2]
              back == out.val
          IN /\ back.id = item.id
             /\ back.collection = item.collection
             /\ back.geometry = item.geometry
             /\ SameNumbers(back.bbox, Get(item, "bbox"))
             /\ \A f \in Configured :
                   /\ f \in DOMAIN back.properties
                   /\ SameValue(f, back.properties[f], item.properties[f])

\* C2: the row returned by ItemSerializer.stac_to_db has properties.updated
\* at an instant not before properties.created.
C2_UpdatedNotBeforeCreated ==
    pc = "stored" =>
       /\ {CREATED, UPDATED} \subseteq DOMAIN out.val.properties
       /\ Instant(out.val.properties[UPDATED])
             >= Instant(out.val.properties[CREATED])

\* C3: under every configured list the returned row has "created" (the
\* input's when it has one, else the time of this write) and "updated" at
\* the time of this write; an Item with only "datetime" and a null geometry
\* is converted without error and its row has a null geometry.
C3_CreatedUpdatedPopulated ==
    /\ pc = "stored" =>
          LET props == out.val.properties IN
          /\ {CREATED, UPDATED} \subseteq DOMAIN props
          /\ readings # <<>>
          /\ props[UPDATED] = NowStr(readings[Len(readings)])
          /\ IF CREATED \in DOMAIN InputProps
             THEN Instant(props[CREATED]) = Instant(InputProps[CREATED])
             ELSE \E k \in 1..Len(readings) : props[CREATED] = NowStr(readings[k])
    /\ (/\ pc \in {"stored", "raised"}
        /\ DOMAIN InputProps = {DATETIME}
        /\ Configured \subseteq {DATETIME}
        /\ orig[2].geometry = None) =>
          /\ pc = "stored"
          /\ out.val.geometry = None

\* the error Python raises for a key a mapping does not hold
MissingFieldError == "KeyError"

\* C4: ItemSerializer.stac_to_db raises the missing-field error and returns
\* no row whenever properties lacks "datetime", lacks a configured indexed
\* field, or still lacks "created" when line 133 reads it (no indexed field
\* configured, so the loop body that writes it never ran).
C4_MissingFieldRaises ==
    (/\ pc \in {"stored", "raised"}
     /\ \/ ~ValidItem
        \/ CREATED \notin DOMAIN InputProps /\ indexed_fields = <<>>) =>
       /\ pc = "raised"
       /\ out.err = MissingFieldError
       /\ out.val = NoValue

\* C4 witness: the second of two indexed fields is the missing one
C4_Witness ==
    /\ pc = "raised"
    /\ out.err = MissingFieldError
    /\ Len(indexed_fields) = 2
    /\ DATETIME \in DOMAIN InputProps
    /\ indexed_fields[1] \in DOMAIN InputProps
    /\ indexed_fields[2] \notin DOMAIN InputProps

\* C8: the converters leave their argument as the caller passed it:
\* stac_to_db the record, also when it raises, and db_to_stac the row.
C8_ArgumentsUnchanged ==
    pc \in {"stored", "raised", "restored"} => argAfter = arg

(* ----------------------- CollectionSerializer -------------------------- *)
\* obj.name of a typed object <<class, fields>>
Attr(obj, name) == obj[2][name]
\* hasattr(value, "to_dict")
HasToDict(v) == v[1] \in {"Range", "Provider"}
\* value.to_dict() of such an object
ObjToDict(v) == <<"dict", v[2]>>

\* json.dumps accepts v
RECURSIVE JsonSerializable(_)
JsonSerializable(v) ==
    CASE v[1] \in {"None", "str", "int", "float", "bool"} -> TRUE
      [] v[1] = "list" -> \A k \in 1..Len(v[2]) : JsonSerializable(v[2][k])
      [] v[1] = "dict" -> \A k \in DOMAIN v[2] : JsonSerializable(v[2][k])
      [] OTHER -> FALSE

\* the interval with str(dt) taken of every endpoint that is not a datetime
SerializeInterval_StrAll(interval) ==
    <<"list", [k \in 1..Len(interval[2]) |->
                  IF IsDatetime(interval[2][k]) THEN isoformat(interval[2][k])
                  ELSE IF IsStr(interval[2][k]) THEN interval[2][k]
                  ELSE Text("None")]>>

\* lines 203-207: an endpoint that is a datetime.datetime becomes its
\* isoformat(), any other endpoint is kept
SerializeInterval(interval) ==
    <<"list", [k \in 1..Len(interval[2]) |->
                  IF IsDatetime(interval[2][k]) THEN isoformat(interval[2][k])
                  ELSE interval[2][k]]>>

\* lines 199-208: intervals for which "if interval:" is false are left out
RECURSIVE TemporalIntervals(_, _)
TemporalIntervals(intervals, i) ==
    IF i > Len(intervals) THEN <<>>
    ELSE IF Truthy(intervals[i])
         THEN <<SerializeInterval(intervals[i])>> \o TemporalIntervals(intervals, i + 1)
         ELSE TemporalIntervals(intervals, i + 1)

\* lines 192-210
ExtentDict(extent) ==
    <<"dict",
      [spatial |-> <<"dict", [bbox |-> Attr(Attr(extent, "spatial"), "bbox")]>>,
       temporal |-> <<"dict",
          [interval |-> <<"list",
              TemporalIntervals(Attr(Attr(extent, "temporal"), "interval")[2], 1)>>]>>]>>

\* lines 213-214
ProvidersList(providers) ==
    <<"list", [k \in 1..Len(providers[2]) |-> ObjToDict(providers[2][k])]>>

\* lines 218-222
SummariesSerialized(summaries) ==
    <<"dict", [key \in DOMAIN summaries[2] |->
                  IF HasToDict(summaries[2][key]) THEN ObjToDict(summaries[2][key])
                  ELSE summaries[2][key]]>>

\* lines 226-238: each link cut down to href, rel, type and title
LinksDict(links) ==
    LET root == Attr(links, "root")[2] IN
    <<"list", [k \in 1..Len(root) |->
                 <<"dict", [href |-> Attr(root[k], "href"),
                            rel |-> Attr(root[k], "rel"),
                            type |-> Attr(root[k], "type"),
                            title |-> Attr(root[k], "title")]>>]>>

\* lines 242-254: dict(stac_data), the four converted fields written over
\* it, "assets" popped
Assemble(stac_data, lis, extent_dict, links_dict, summaries_serialized) ==
    LET updated == [stac_data[2] EXCEPT !.providers = lis,
                                        !.extent = extent_dict,
                                        !.links = links_dict,
                                        !.summaries = summaries_serialized]
    IN [k \in (DOMAIN updated) \ {"assets"} |-> updated[k]]

\* lines 256-260: json.dumps is tried; its TypeError is caught, a message is
\* printed and control goes on to the return
VerifySerialization(mapping) ==
    IF JsonSerializable(<<"dict", mapping>>)
    THEN [err |-> "none", printed |-> FALSE]
    ELSE [err |-> "none", printed |-> TRUE]

\* CollectionSerializer.stac_to_db
Collection_stac_to_db(stac_data) ==
    IF stac_data[1] = "dict"
    THEN \* line 192: a dict has no attribute "extent"
         [err |-> "AttributeError", val |-> NoValue, printed |-> FALSE]
    ELSE LET extent_dict == ExtentDict(Attr(stac_data, "extent"))
             providers == Attr(stac_data, "providers")
         IN IF providers = None
            THEN \* line 214: None is not iterable
                 [err |-> "TypeError", val |-> NoValue, printed |-> FALSE]
            ELSE LET mapping == Assemble(stac_data, ProvidersList(providers),
                                         extent_dict,
                                         LinksDict(Attr(stac_data, "links")),
                                         SummariesSerialized(Attr(stac_data, "summaries")))
                     verified == VerifySerialization(mapping)
                 IN IF verified.err # "none"
                    THEN [err |-> verified.err, val |-> NoValue,
                          printed |-> verified.printed]
                    ELSE \* line 262: database.Collection(**mapping)
                         [err |-> "none", val |-> mapping,
                          printed |-> verified.printed]

\* lines 157-163, with CollectionLinks.create_links of
\* stac_fastapi.types.links
CollectionLinks(db_model, base_url) ==
    LET Inferred(rel, path) ==
            <<"dict", [rel |-> Text(rel), href |-> <<"str", "absolute", path>>]>>
        inferred ==
            <<Inferred("self", <<base_url, Get(db_model, "id")>>),
              Inferred("parent", <<base_url>>),
              Inferred("items", <<base_url, Get(db_model, "id"), "items">>),
              Inferred("root", <<base_url>>)>>
        db_links == Get(db_model, "links")
    IN IF Truthy(db_links)
       THEN <<"list", inferred \o ResolveLinks(db_links, base_url)>>
       ELSE <<"list", inferred>>

\* the same with "is not None" for the test
IncludeIfSet_NotNone(collection, db_model, key) ==
    IF Get(db_model, key) # None
    THEN Put(collection, key, Get(db_model, key))
    ELSE collection

\* lines 176-185: "if db_model.<key>: collection[<key>] = db_model.<key>"
IncludeIfSet(collection, db_model, key) ==
    IF Truthy(Get(db_model, key))
    THEN Put(collection, key, Get(db_model, key))
    ELSE collection

\* CollectionSerializer.db_to_stac
Collection_db_to_stac(db_model, base_url) ==
    LET collection == [type |-> Text("Collection"),
                       id |-> Get(db_model, "id"),
                       stac_version |-> Get(db_model, "stac_version"),
                       description |-> Get(db_model, "description"),
                       license |-> Get(db_model, "license"),
                       extent |-> Get(db_model, "extent"),
                       links |-> CollectionLinks(db_model, base_url)]
        c1 == IncludeIfSet(collection, db_model, "stac_extensions")
        c2 == IncludeIfSet(c1, db_model, "title")
        c3 == IncludeIfSet(c2, db_model, "keywords")
        c4 == IncludeIfSet(c3, db_model, "providers")
    IN IncludeIfSet(c4, db_model, "summaries")

(* ---------------- the Collection calls as a state machine -------------- *)
EndpointInputs == {None, <<"datetime", 0>>, <<"str", "Z", 1>>}
\* an interval is a pair of endpoints, an empty list, or None
IntervalInputs ==
    {<<"list", <<a, b>>>> : a \in EndpointInputs, b \in EndpointInputs}
    \cup {<<"list", <<>>>>, None}
IntervalLists ==
    UNION {[1..n -> IntervalInputs] : n \in 0..MaxIntervals}

Bbox4 == <<"list", << <<"list", << <<"float", 1>>, <<"float", 2>>,
                                  <<"float", 3>>, <<"float", 4>> >> >> >> >>
ExtentInput(intervals) ==
    <<"Extent", [spatial |-> <<"SpatialExtent", [bbox |-> Bbox4]>>,
                 temporal |-> <<"TimeInterval",
                                [interval |-> <<"list", intervals>>]>>]>>

ProviderObj == <<"Provider", [name |-> Text("p"), url |-> None]>>
ProvidersInputs == {None, <<"list", <<>>>>, <<"list", <<ProviderObj>>>>}
RangeObj == <<"Range", [minimum |-> <<"int", 1>>, maximum |-> <<"int", 2>>]>>
SummariesInputs ==
    {<<"dict", EmptyDict>>,
     <<"dict", [gsd |-> RangeObj, platform |-> <<"list", <<Text("s2")>>>>]>>,
     <<"dict", [gsd |-> RangeObj, seen |-> <<"set", {Text("s2")}>>]>>}
ExtensionsInputs ==
    {<<"list", <<Text("https://x/eo.json")>>>>,
     <<"list", << <<"AnyUrl", "https://x/eo.json">> >>>>}
LinkObj == <<"Link", [href |-> <<"str", "relative", "license">>,
                      rel |-> Text("license"), type |-> None,
                      title |-> Text("l"), method |-> Text("GET")]>>
LinksInput == <<"Links", [root |-> <<"list", <<LinkObj>>>>]>>

CollectionFields(intervals, providers, summaries, extensions) ==
    [id |-> Text("c1"), type |-> Text("Collection"),
     stac_version |-> Text("1.0.0"), description |-> Text("d"),
     license |-> Text("MIT"), title |-> Text("t"), keywords |-> None,
     stac_extensions |-> extensions, extent |-> ExtentInput(intervals),
     providers |-> providers, summaries |-> summaries,
     links |-> LinksInput, assets |-> None]

\* the record as a typed Collection or as a plain mapping of the same fields
CollectionInputs ==
    {<<shape, CollectionFields(i, p, s, x)>> :
        shape \in {"Collection", "dict"}, i \in IntervalLists,
        p \in ProvidersInputs, s \in SummariesInputs, x \in ExtensionsInputs}

\* rows as the storage layer hands them to db_to_stac
StoredLink == <<"dict", [href |-> <<"str", "relative", "license">>,
                         rel |-> Text("license"), type |-> None,
                         title |-> Text("l")]>>
CollectionRows ==
    {[id |-> Text("c1"), stac_version |-> Text("1.0.0"),
      description |-> Text("d"), license |-> Text("MIT"),
      extent |-> <<"dict", [spatial |-> <<"dict", [bbox |-> Bbox4]>>]>>,
      links |-> l, stac_extensions |-> x, title |-> t, keywords |-> k,
      providers |-> p, summaries |-> s] :
        l \in {None, <<"list", <<StoredLink>>>>},
        x \in {None, <<"list", <<>>>>, <<"list", <<Text("https://x/eo.json")>>>>},
        t \in {None, Text(""), Text("t")},
        k \in {None, <<"list", <<>>>>, <<"list", <<Text("k")>>>>},
        p \in {None, <<"list", <<>>>>, <<"list", <<ObjToDict(ProviderObj)>>>>},
        s \in {None, <<"dict", EmptyDict>>, <<"dict", [gsd |-> ObjToDict(RangeObj)]>>}}

CollInit ==
    /\ indexed_fields = <<DATETIME>>
    /\ clock = 0
    /\ readings = <<>>
    /\ out = NoCall
    /\ \/ pc = "coll_ready" /\ arg \in CollectionInputs
       \/ pc = "coll_loaded" /\ arg \in CollectionRows
    /\ argAfter = arg
    /\ orig = arg

CollStacToDb ==
    /\ pc = "coll_ready"
    /\ LET r == Collection_stac_to_db(arg) IN
          /\ out' = r
          /\ pc' = IF r.err = "none" THEN "coll_stored" ELSE "coll_raised"
    /\ argAfter' = arg
    /\ UNCHANGED <<indexed_fields, clock, readings, arg, orig>>

CollDbToStac ==
    /\ pc \in {"coll_loaded", "coll_stored"}
    /\ arg' = IF pc = "coll_stored" THEN out.val ELSE arg
    /\ argAfter' = arg'
    /\ out' = [err |-> "none", val |-> Collection_db_to_stac(arg', BaseUrl)]
    /\ pc' = "coll_restored"
    /\ UNCHANGED <<indexed_fields, clock, readings, orig>>

CollNext == CollStacToDb \/ CollDbToStac
SpecColl == CollInit /\ [][CollNext]_vars

(* ------------------------- Collection claims --------------------------- *)
\* C5: when the assembled mapping fails the json.dumps check,
\* CollectionSerializer.stac_to_db ends in a SerializationError and no row
\* is constructed.
C5_SerializationFailureIsFatal ==
    (pc \in {"coll_stored", "coll_raised"} /\ out.printed) =>
       /\ out.err = "SerializationError"
       /\ out.val = NoValue

NonEmptyNonNull(v) ==
    /\ v # None
    /\ v # Text("")
    /\ v # <<"list", <<>>>>
    /\ v # <<"dict", EmptyDict>>
OptionalKeys == {"stac_extensions", "title", "keywords", "providers", "summaries"}
MandatoryKeys == {"id", "stac_version", "description", "license", "extent", "links"}

\* C6: the record CollectionSerializer.db_to_stac returns holds each of
\* stac_extensions, title, keywords, providers, summaries exactly when the
\* row's field is neither null nor empty, then with the row's value, and
\* always holds id, stac_version, description, license, extent and links.
C6_OptionalKeysOnlyWhenSet ==
    pc = "coll_restored" =>
       /\ MandatoryKeys \subseteq DOMAIN out.val
       /\ \A k \in OptionalKeys :
             /\ k \in DOMAIN out.val <=> NonEmptyNonNull(Get(arg, k))
             /\ k \in DOMAIN out.val => out.val[k] = Get(arg, k)

\* C6 witness: a row with providers null, an empty title and keywords set
C6_Witness ==
    /\ pc = "coll_restored"
    /\ Get(arg, "providers") = None
    /\ Get(arg, "title") = Text("")
    /\ Get(arg, "keywords") = <<"list", <<Text("k")>>>>
    /\ "keywords" \in DOMAIN out.val
    /\ "providers" \notin DOMAIN out.val

OtherShape(stac_data, typed) ==
    <<IF stac_data[1] = "dict" THEN typed ELSE "dict", stac_data[2]>>

\* C7: in both converters a record passed as a plain mapping and the same
\* record passed as a typed object are both accepted and give the same row.
C7_BothShapesAccepted ==
    /\ pc \in {"stored", "raised"} =>
          LET r == Item_stac_to_db(OtherShape(arg, "Item"), indexed_fields, readings)
          IN out.err = r.err /\ out.val = r.val
    /\ pc \in {"coll_stored", "coll_raised"} =>
          LET r == Collection_stac_to_db(OtherShape(arg, "Collection"))
          IN out.err = r.err /\ out.val = r.val

InputIntervals == Attr(Attr(Attr(orig, "extent"), "temporal"), "interval")[2]
InputBbox == Attr(Attr(Attr(orig, "extent"), "spatial"), "bbox")
RowIntervals == out.val.extent[2].temporal[2].interval[2]
RowBbox == out.val.extent[2].spatial[2].bbox
ExpectedEndpoint(e) ==
    IF e[1] = "datetime" THEN <<"str", "+00:00", e[2]>> ELSE e
ExpectedInterval(interval) ==
    IF interval = None THEN None
    ELSE <<"list", [k \in 1..Len(interval[2]) |-> ExpectedEndpoint(interval[2][k])]>>

\* C10 as stated: the row's spatial bbox is the input's, and every input
\* interval is in the row at its input position, datetime endpoints as
\* ISO 8601 text and every other endpoint as it was.
C10_IntervalsSamePosition ==
    pc = "coll_stored" =>
       /\ RowBbox = InputBbox
       /\ Len(RowIntervals) = Len(InputIntervals)
       /\ \A k \in 1..Len(InputIntervals) :
             RowIntervals[k] = ExpectedInterval(InputIntervals[k])

IsKept(interval) == interval # None /\ interval # <<"list", <<>>>>
KeptIntervals == SelectSeq(InputIntervals, IsKept)

\* C10 amended: the row's spatial bbox is the input's, and the row's
\* intervals are the input's non-empty intervals in input order, datetime
\* endpoints as ISO 8601 text and every other endpoint as it was; null and
\* empty intervals are left out.
C10_NonEmptyIntervalsInOrder ==
    pc = "coll_stored" =>
       /\ RowBbox = InputBbox
       /\ Len(RowIntervals) = Len(KeptIntervals)
       /\ \A k \in 1..Len(KeptIntervals) :
             RowIntervals[k] = ExpectedInterval(KeptIntervals[k])

\* C10 witness: an empty interval ahead of one with a datetime and a null
\* endpoint
C10_Witness ==
    /\ pc = "coll_stored"
    /\ InputIntervals = << <<"list", <<>>>>, <<"list", << <<"datetime", 0>>, None>> >> >>
    /\ RowIntervals = << <<"list", << <<"str", "+00:00", 0>>, None>> >> >>

(* --------------------------- row_to_dict ------------------------------- *)
\* Serializer.row_to_dict, lines 38-43: a column is entered "if value:"
row_to_dict(db_model) ==
    [column \in {c \in DOMAIN db_model : Truthy(db_model[c])} |-> db_model[column]]

TableRows ==
    {[id |-> i, stac_version |-> v, collection_id |-> c, bbox |-> b,
      cloud_cover |-> n] :
        i \in {None, Text(""), Text("a")},
        v \in {None, Text("1.0.0")},
        c \in {None, Text("c1")},
        b \in {None, <<"list", <<>>>>, <<"list", << <<"float", 1>> >>>>},
        n \in {None, <<"int", 0>>, <<"int", 5>>}}

DictInit ==
    /\ indexed_fields = <<DATETIME>>
    /\ clock = 0
    /\ readings = <<>>
    /\ out = NoCall
    /\ pc = "row_ready"
    /\ arg \in TableRows
    /\ argAfter = arg
    /\ orig = arg

RowToDict ==
    /\ pc = "row_ready"
    /\ out' = [err |-> "none", val |-> row_to_dict(arg)]
    /\ pc' = "flattened"
    /\ UNCHANGED <<indexed_fields, clock, readings, arg, argAfter, orig>>

DictNext == RowToDict
SpecDict == DictInit /\ [][DictNext]_vars

\* C9: Serializer.row_to_dict maps exactly the columns whose value is not
\* null, each to its value: 0, False, "" and [] are entered too.
C9_NonNullColumnsListed ==
    pc = "flattened" =>
       /\ DOMAIN out.val = {c \in DOMAIN arg : arg[c] # None}
       /\ \A c \in DOMAIN out.val : out.val[c] = arg[c]

====
